---- MODULE Spec2Model ----
(***************************************************************************)
(* A model of the SkipTrie of skiptrie/skiptrie.go: a lock-free skip list  *)
(* whose nodes of full height are indexed by an x-fast trie.               *)
(*                                                                         *)
(* Every goroutine is a thread with a program counter.  One step of a      *)
(* thread is one access to shared memory (an atomic Load, Store or         *)
(* CompareAndSwap, or one call on the sync.Map) together with the local    *)
(* computation that follows it up to the next access.  Go's atomics are    *)
(* sequentially consistent, so interleaving these steps gives every        *)
(* execution of the program.                                               *)
(*                                                                         *)
(* The key universe is scaled from 32 bits to KeyBits bits: MaxKey is      *)
(* 2^KeyBits - 1 and every literal 32, 31 of the source is KeyBits,        *)
(* KeyBits - 1.                                                            *)
(*                                                                         *)
(* listSearch counts the iterations of its outer loop and gives up after   *)
(* maxIterations = 1000 of them (lines 90-92, 140-141).  An iteration      *)
(* that fails because another thread wrote during it needs one such write, *)
(* and within the bounds below there are far fewer than 1000 writes.  But  *)
(* an iteration that fails on the mark of its start node, with no node     *)
(* after start to advance to, fails again for as long as nothing changes:  *)
(* running alone the thread repeats it up to the cap.  The model therefore *)
(* keeps, for the counter, only whether such an iteration has happened in  *)
(* this call (spin): once it has, every failing iteration may be the       *)
(* 1000th, and before it has, none is.                                     *)
(***************************************************************************)
EXTENDS Integers, Sequences, FiniteSets, TLC

\* ---------------------------------------------------------------- bounds
KeyBits == 3
MaxNodes == 3
SeqNodes == 2
MaxOps == 4
HeapNodes == 5

\* ------------------------------------------------------------- constants
LogLogU == 5
MaxRetries == 100
MaxKey == (2 ^ KeyBits) - 1

NIL == 0
head == 1
tail == 2
NodeIds == 1 .. (HeapNodes + 2)
Levels == 0 .. (LogLogU - 1)
Top == LogLogU - 1
KeyUniverse == 0 .. MaxKey
Threads == {1, 2, 3}
Pair == {1, 2}

VARIABLES
    key,        \* Node.key
    origHeight, \* Node.origHeight (0: the id is not allocated yet)
    next,       \* Node.next[level]
    marked,     \* Node.marked
    ready,      \* Node.ready
    stop,       \* Node.stop
    prev,       \* Node.prev
    back,       \* Node.back
    nalloc,     \* the last node id handed out
    prefixes,   \* SkipTrie.prefixes: prefix -> TreeNode
    pointers,   \* TreeNode.pointers, per TreeNode
    th,         \* per thread: program counter, arguments and locals
    hist        \* history of calls and returns (not program state)

nodeVars == <<key, origHeight, next, marked, ready, stop, prev, back, nalloc>>
trieVars == <<prefixes, pointers>>
vars == <<key, origHeight, next, marked, ready, stop, prev, back, nalloc,
          prefixes, pointers, th, hist>>

\* ------------------------------------------------------------ bit strings
\* bit j of k, j = 0 the least significant: key & (1 << j) != 0
Bit(k, j) == (k \div (2 ^ j)) % 2

\* extractPrefix(key, start, end): bits start .. end-1, most significant
\* first, as a string of '0' and '1' (here a sequence of 0 and 1)
extractPrefix(k, start, end) ==
    LET e == IF end > KeyBits THEN KeyBits ELSE end
    IN  [i \in 1 .. (e - start) |-> Bit(k, KeyBits - 1 - (start + i - 1))]

\* isPrefixOf(prefix, key)
isPrefixOf(prefix, k) ==
    \A i \in 1 .. Len(prefix) : prefix[i] = Bit(k, KeyBits - 1 - (i - 1))

\* the direction computed in insertIntoTrie and deleteFromTrie for index i
direction(k, i) ==
    IF i < KeyBits - 1 /\ Bit(k, KeyBits - 1 - i - 1) # 0 THEN 1 ELSE 0

\* A TreeNode is created by one LoadOrStore of one insertIntoTrie call, at
\* most one per node and prefix length: its identity is that pair.
TnIds == NodeIds \X (1 .. KeyBits)
NoTn == <<0, 0>>

\* ------------------------------------------------------------- new state
NoSlots == [l \in Levels |-> NIL]

\* a thread between two calls
Idle ==
    [pc |-> "idle", op |-> "none", arg |-> 0, res |-> FALSE,
     node |-> NIL, height |-> 0, level |-> 0,
     preds |-> NoSlots, succs |-> NoSlots,
     start |-> NIL, left |-> NIL, right |-> NIL, nextRight |-> NIL,
     spin |-> FALSE, ret |-> "none",
     pred |-> NIL, retries |-> 0,
     curr |-> NIL, pret |-> "none",
     i |-> 0, tn |-> NoTn,
     exp |-> FALSE, pre |-> FALSE, neg |-> FALSE]

\* The history of calls and returns, kept beside the program's state:
\*   members  keys k with an Insert(k) that returned true, no Delete(k) in
\*            progress during that Insert, and no Delete(k) that returned
\*            true after it
\*   insOK    nodes whose Insert returned true
\*   delCnt   per node, the Delete calls that returned true on it
\*   insInv, delInv  keys for which Insert, Delete was ever called
\*   overlap  keys for which two calls were in progress at the same time
\*   gone     keys k whose Delete(k) returned true with no Insert(k)
\*            in progress during it or called after it
\*   nops     calls made so far
\*   phase    "build" until the first concurrent call, then "run"
NoHist ==
    [members |-> {}, insOK |-> {}, delCnt |-> [n \in NodeIds |-> 0],
     insInv |-> {}, delInv |-> {}, overlap |-> {}, gone |-> {},
     nops |-> 0, phase |-> "build"]

\* NewSkipTrie
Init ==
    /\ key = [n \in NodeIds |-> IF n = tail THEN MaxKey ELSE 0]
    /\ origHeight = [n \in NodeIds |-> IF n \in {head, tail} THEN LogLogU ELSE 0]
    /\ next = [n \in NodeIds |-> IF n = head THEN [l \in Levels |-> tail] ELSE NoSlots]
    /\ marked = [n \in NodeIds |-> FALSE]
    /\ ready = [n \in NodeIds |-> FALSE]
    /\ stop = [n \in NodeIds |-> FALSE]
    /\ prev = [n \in NodeIds |-> IF n = tail THEN head ELSE NIL]
    /\ back = [n \in NodeIds |-> NIL]
    /\ nalloc = tail
    /\ prefixes = << >>
    /\ pointers = [x \in {} |-> <<NIL, NIL>>]
    /\ th = [t \in Threads |-> Idle]
    /\ hist = NoHist

\* ------------------------------------------------------- calls and returns
Active(u) == th[u].pc \notin {"idle", "done"}

\* what a call of op(k) does to the preconditions another call carries
Inval(s, op, k) ==
    IF s.pc \in {"idle", "done"} \/ s.arg # k THEN s
    ELSE IF op = "Delete" /\ s.op \in {"Contains", "Delete"} THEN [s EXCEPT !.pre = FALSE]
    ELSE IF op = "Delete" /\ s.op = "Insert" THEN [s EXCEPT !.neg = FALSE]
    ELSE IF op = "Insert" /\ s.op \in {"Contains", "Delete"} THEN [s EXCEPT !.neg = FALSE]
    ELSE s

\* the preconditions a new call of op(k) by t starts with
Flags(t, op, k) ==
    LET busy(o) == \E u \in Threads \ {t} : Active(u) /\ th[u].op = o /\ th[u].arg = k
    IN  [exp |-> IF op = "Insert" THEN k \notin hist.members ELSE k \in hist.members,
         pre |-> op \in {"Contains", "Delete"} /\ k \in hist.members /\ ~busy("Delete"),
         neg |-> IF op = "Delete" THEN ~busy("Insert")
                 ELSE IF op = "Insert" THEN ~busy("Delete")
                 ELSE op = "Contains" /\ k \in hist.gone]

HistCall(t, op, k) ==
    LET same == \E u \in Threads \ {t} :
                   Active(u) /\ th[u].arg = k /\ th[u].op \in {"Insert", "Delete"}
    IN  [hist EXCEPT
           !.insInv = IF op = "Insert" THEN @ \cup {k} ELSE @,
           !.delInv = IF op = "Delete" THEN @ \cup {k} ELSE @,
           !.gone = IF op = "Insert" THEN @ \ {k} ELSE @,
           !.overlap = IF op \in {"Insert", "Delete"} /\ same THEN @ \cup {k} ELSE @,
           !.phase = IF \E u \in Threads \ {t} : Active(u) THEN "run" ELSE @]

\* thread t calls op(k); s is its record at the first step of the call and
\* n what the call adds to the count of calls
Call(t, op, k, s, n) ==
    LET f == Flags(t, op, k)
    IN  /\ th[t].pc = "idle"
        /\ hist.nops + n <= MaxOps
        /\ th' = [u \in Threads |->
                    IF u = t
                    THEN [s EXCEPT !.op = op, !.arg = k,
                                   !.exp = f.exp, !.pre = f.pre, !.neg = f.neg]
                    ELSE Inval(th[u], op, k)]
        /\ hist' = [HistCall(t, op, k) EXCEPT !.nops = hist.nops + n]

\* the record of a thread whose call has returned: the call, its result,
\* the node Predecessor returned and the node Delete found
Returned(s) ==
    [Idle EXCEPT !.pc = "done", !.op = s.op, !.arg = s.arg, !.res = s.res,
                 !.curr = IF s.op = "Predecessor" THEN s.curr ELSE NIL,
                 !.node = IF s.op = "Delete" THEN s.node ELSE NIL,
                 !.exp = s.exp, !.pre = s.pre, !.neg = s.neg]

HistReturn(s) ==
    IF s.op = "Insert" /\ s.res
    THEN [hist EXCEPT !.members = IF s.neg THEN @ \cup {s.arg} ELSE @,
                      !.insOK = @ \cup {s.node}]
    ELSE IF s.op = "Delete" /\ s.res
    THEN [hist EXCEPT !.members = @ \ {s.arg},
                      !.delCnt[s.node] = @ + 1,
                      !.gone = IF s.neg THEN @ \cup {s.arg} ELSE @]
    ELSE hist

\* a public call returns r
Return(s, r) == [s EXCEPT !.pc = "return", !.res = r]

\* the end of a step of t that leaves t's record as s
Finish(t, s) ==
    /\ th' = [th EXCEPT ![t] = IF s.pc = "return" THEN Returned(s) ELSE s]
    /\ hist' = IF s.pc = "return" THEN HistReturn(s) ELSE hist

\* the caller of a public call has taken the result
Resume(t) ==
    /\ th[t].pc = "done"
    /\ th' = [th EXCEPT ![t] = Idle]
    /\ UNCHANGED <<nodeVars, trieVars, hist>>

\* --------------------------------------------------------------- listSearch
\* listSearch(key, start, level) is called: lines 89-96 up to the first Load
lsCall(s, start, level, ret) ==
    [s EXCEPT !.start = start, !.level = level, !.left = start, !.right = NIL,
              !.nextRight = NIL, !.spin = FALSE, !.ret = ret, !.pc = "ls_load"]

\* ----------------------------------------------------------- insertIntoTrie
\* the prefix and the TreeNode slot that index i of the loops of
\* insertIntoTrie (408-412) and deleteFromTrie (492-497) works on
triePrefix(s) == extractPrefix(s.arg, 0, s.i + 1)
trieDir(s) == direction(s.arg, s.i)

\* Insert returns true (line 402)
insertDone(s) == Return(s, TRUE)

\* the next index of the loop of line 408, or the end of Insert
itNext(s) ==
    IF s.i > 0 THEN [s EXCEPT !.i = @ - 1, !.tn = NoTn, !.curr = NIL, !.pc = "it_marked"]
    ELSE insertDone(s)

\* Insert after skiplistInsert returned newNode (lines 393-402)
insertTail(s) ==
    IF s.height = LogLogU
    THEN [s EXCEPT !.i = KeyBits - 1, !.tn = NoTn, !.curr = NIL, !.pc = "it_marked",
                   !.preds = NoSlots, !.succs = NoSlots, !.left = NIL, !.right = NIL,
                   !.pred = NIL, !.retries = 0, !.level = 0]
    ELSE insertDone(s)

\* line 415: !node.marked.Load()
it_marked(t) ==
    LET s == th[t] IN
    /\ s.pc = "it_marked"
    /\ Finish(t, IF marked[s.node] THEN itNext(s) ELSE [s EXCEPT !.pc = "it_los"])
    /\ UNCHANGED <<nodeVars, trieVars>>

\* lines 416-423: prefixes.LoadOrStore(prefix, &TreeNode{})
it_los(t) ==
    LET s == th[t]
        p == triePrefix(s)
        loaded == p \in DOMAIN prefixes
        new == <<s.node, s.i + 1>>
    IN
    /\ s.pc = "it_los"
    /\ prefixes' = IF loaded THEN prefixes ELSE prefixes @@ (p :> new)
    /\ pointers' = IF loaded THEN pointers ELSE pointers @@ (new :> <<NIL, NIL>>)
    /\ Finish(t, IF loaded THEN [s EXCEPT !.tn = prefixes[p], !.pc = "it_load"]
                 ELSE [s EXCEPT !.tn = new, !.pc = "it_new"])
    /\ UNCHANGED nodeVars

\* lines 425-429: tn.pointers[direction].Store(node)
it_new(t) ==
    LET s == th[t] IN
    /\ s.pc = "it_new"
    /\ pointers' = [pointers EXCEPT ![s.tn][trieDir(s) + 1] = s.node]
    /\ Finish(t, itNext(s))
    /\ UNCHANGED <<nodeVars, prefixes>>

\* lines 432-443: curr := tn.pointers[direction].Load() and the tests on it
it_load(t) ==
    LET s == th[t]
        c == pointers[s.tn][trieDir(s) + 1]
    IN
    /\ s.pc = "it_load"
    /\ Finish(t, IF c = NIL THEN [s EXCEPT !.pc = "it_casnil"]
                 ELSE IF trieDir(s) = 0 /\ key[c] >= s.arg THEN itNext(s)
                 ELSE IF trieDir(s) = 1 /\ key[c] <= s.arg THEN itNext(s)
                 ELSE [s EXCEPT !.curr = c, !.pc = "it_cas"])
    /\ UNCHANGED <<nodeVars, trieVars>>

\* lines 433-436: tn.pointers[direction].CompareAndSwap(nil, node); break
it_casnil(t) ==
    LET s == th[t]
        d == trieDir(s) + 1
    IN
    /\ s.pc = "it_casnil"
    /\ pointers' = IF pointers[s.tn][d] = NIL
                   THEN [pointers EXCEPT ![s.tn][d] = s.node] ELSE pointers
    /\ Finish(t, itNext(s))
    /\ UNCHANGED <<nodeVars, prefixes>>

\* lines 446-448: tn.pointers[direction].CompareAndSwap(curr, node)
it_cas(t) ==
    LET s == th[t]
        d == trieDir(s) + 1
        ok == pointers[s.tn][d] = s.curr
    IN
    /\ s.pc = "it_cas"
    /\ pointers' = IF ok THEN [pointers EXCEPT ![s.tn][d] = s.node] ELSE pointers
    /\ Finish(t, IF ok THEN itNext(s) ELSE [s EXCEPT !.curr = NIL, !.pc = "it_marked"])
    /\ UNCHANGED <<nodeVars, prefixes>>

\* ------------------------------------------------------------------ fixPrev
\* fixPrev returns: skiplistInsert returns newNode (line 212)
fpDone(s) == insertTail(s)

\* line 220: !node.marked.Load() && retries < maxRetries; lines 238-240
fp_marked(t) ==
    LET s == th[t] IN
    /\ s.pc = "fp_marked"
    /\ Finish(t, IF ~marked[s.node] /\ s.retries < MaxRetries
                 THEN lsCall(s, s.pred, LogLogU - 1, "fp_ret")
                 ELSE IF s.retries >= MaxRetries THEN [s EXCEPT !.pc = "fp_force"]
                 ELSE fpDone(s))
    /\ UNCHANGED <<nodeVars, trieVars>>

\* lines 221-228, after listSearch returned
fpRet(s) ==
    IF s.right = s.node THEN [s EXCEPT !.pc = "fp_prev"]
    ELSE [s EXCEPT !.pred = s.left, !.retries = @ + 1, !.left = NIL,
                   !.right = NIL, !.pc = "fp_marked"]

\* line 223: node.prev.Store(left)
fp_prev(t) ==
    LET s == th[t] IN
    /\ s.pc = "fp_prev"
    /\ prev' = [prev EXCEPT ![s.node] = s.left]
    /\ Finish(t, [s EXCEPT !.pc = "fp_ready"])
    /\ UNCHANGED <<key, origHeight, next, marked, ready, stop, back, nalloc, trieVars>>

\* line 224: node.ready.Store(true)
fp_ready(t) ==
    LET s == th[t] IN
    /\ s.pc = "fp_ready"
    /\ ready' = [ready EXCEPT ![s.node] = TRUE]
    /\ Finish(t, fpDone(s))
    /\ UNCHANGED <<key, origHeight, next, marked, prev, stop, back, nalloc, trieVars>>

\* line 239: node.ready.Store(true) once the retries are used up
fp_force(t) ==
    LET s == th[t] IN
    /\ s.pc = "fp_force"
    /\ ready' = [ready EXCEPT ![s.node] = TRUE]
    /\ Finish(t, fpDone(s))
    /\ UNCHANGED <<key, origHeight, next, marked, prev, stop, back, nalloc, trieVars>>

\* ----------------------------------------------------------- skiplistInsert
\* the node of the call: newNode once it is linked at level 0, until then
\* the id it will get (no other thread can reach it before that CAS)
newNode(s) == IF s.node = NIL THEN nalloc + 1 ELSE s.node

\* lines 187-190 at the start of a turn of the link loop: newNode.stop is
\* loaded; until newNode is linked at level 0 no other thread can have set it
insLink(s) ==
    IF s.node = NIL THEN [s EXCEPT !.pc = "ins_cas"] ELSE [s EXCEPT !.pc = "ins_stop"]

\* lines 171-182 without the test of line 172
insSearchNoDup(s) ==
    LET r == [s EXCEPT !.preds[s.level] = s.left, !.succs[s.level] = s.right,
                       !.left = NIL, !.right = NIL]
    IN  IF s.level > 0 THEN lsCall(r, head, s.level - 1, "ins_search")
        ELSE insLink([r EXCEPT !.level = 0])

\* lines 171-182: listSearch returned at a level of the search loop
insSearch(s) ==
    IF s.right # NIL /\ key[s.right] = s.arg THEN Return(s, FALSE)
    ELSE LET r == [s EXCEPT !.preds[s.level] = s.left, !.succs[s.level] = s.right,
                            !.left = NIL, !.right = NIL]
         IN  IF s.level > 0 THEN lsCall(r, head, s.level - 1, "ins_search")
             ELSE insLink([r EXCEPT !.level = 0])

\* lines 188-190: newNode.stop.Load()
ins_stop(t) ==
    LET s == th[t] IN
    /\ s.pc = "ins_stop"
    /\ Finish(t, IF s.node # NIL /\ stop[s.node] THEN insertTail(s)
                 ELSE [s EXCEPT !.pc = "ins_cas"])
    /\ UNCHANGED <<nodeVars, trieVars>>

\* line 193 as a plain Store(newNode)
linkStore(p, l, old) == TRUE

\* whether the CompareAndSwap of line 193 succeeds
linkCas(p, l, old) == next[p][l] = old

\* line 198 with preds[0] for preds[level]
retryStartBottom(s) == s.preds[0]

\* line 198: the node from which the search is made again after the
\* CompareAndSwap of line 193 has failed
retryStart(s) == s.preds[s.level]

\* lines 192-195: newNode.next[level].Store(succs[level]);
\* preds[level].next[level].CompareAndSwap(succs[level], newNode); and
\* lines 208-212 after the top level of the tower is linked
ins_cas(t) ==
    LET s == th[t]
        n == newNode(s)
        l == s.level
        ok == linkCas(s.preds[l], l, s.succs[l])
        linked == [s EXCEPT !.node = n]
    IN
    /\ s.pc = "ins_cas"
    /\ n \in NodeIds
    /\ next' = IF ok THEN [next EXCEPT ![n][l] = s.succs[l], ![s.preds[l]][l] = n]
               ELSE IF s.node # NIL THEN [next EXCEPT ![n][l] = s.succs[l]]
               ELSE next
    /\ key' = IF ok THEN [key EXCEPT ![n] = s.arg] ELSE key
    /\ origHeight' = IF ok THEN [origHeight EXCEPT ![n] = s.height] ELSE origHeight
    /\ nalloc' = IF ok /\ s.node = NIL THEN n ELSE nalloc
    /\ Finish(t, IF ~ok THEN lsCall(s, retryStart(s), l, "ins_retry")
                 ELSE IF l + 1 < s.height
                 THEN [linked EXCEPT !.level = l + 1, !.pc = "ins_stop"]
                 ELSE IF s.height = LogLogU
                 THEN [linked EXCEPT !.pred = s.preds[LogLogU - 1], !.retries = 0,
                                     !.pc = "fp_marked"]
                 ELSE insertTail(linked))
    /\ UNCHANGED <<marked, ready, stop, prev, back, trieVars>>

\* lines 198-203: listSearch returned after a failed CompareAndSwap
insRetry(s) ==
    IF s.right # NIL /\ key[s.right] = s.arg THEN Return(s, FALSE)
    ELSE insLink([s EXCEPT !.preds[s.level] = s.left, !.succs[s.level] = s.right,
                           !.left = NIL, !.right = NIL])


\* -------------------------------------------------------------- Predecessor
\* Predecessor(key) is called (line 538); its result goes to pret
predCall(s, pret) ==
    [s EXCEPT !.curr = head, !.level = LogLogU - 1, !.pret = pret, !.pc = "pr_load"]

\* lines 555-558 without the test of line 555: the head is returned as a node
predReturnHead(s) ==
    LET c == [s EXCEPT !.curr = NIL, !.pred = s.curr, !.level = 0, !.right = NIL,
                       !.nextRight = NIL, !.pret = "none"]
    IN  IF s.pret = "Delete" THEN [c EXCEPT !.pc = "del_first"]
        ELSE IF s.pret = "Contains" THEN [c EXCEPT !.pc = "con_load"]
        ELSE Return([c EXCEPT !.curr = s.curr, !.pred = NIL], TRUE)

\* lines 555-558, and what the caller does with the result
predReturn(s) ==
    LET r == IF s.curr = head THEN NIL ELSE s.curr
        c == [s EXCEPT !.curr = NIL, !.pred = r, !.level = 0, !.right = NIL,
                       !.nextRight = NIL, !.pret = "none"]
    IN  IF s.pret = "Delete" THEN [c EXCEPT !.pc = "del_first"]
        ELSE IF s.pret = "Contains" THEN [c EXCEPT !.pc = "con_load"]
        ELSE Return([c EXCEPT !.curr = r, !.pred = NIL], r # NIL)

\* the end of the loop of line 540 at one level
predDown(s) ==
    IF s.level > 0 THEN [s EXCEPT !.level = @ - 1, !.right = NIL, !.pc = "pr_load"]
    ELSE predReturn(s)

\* line 542 with > for >=
predStopStrict(nx, k) == nx = NIL \/ nx = tail \/ key[nx] > k

\* the test of line 542
predStop(nx, k) == nx = NIL \/ nx = tail \/ key[nx] >= k

\* lines 541-544: next := curr.next[level].Load() (next is kept in right)
pr_load(t) ==
    LET s == th[t]
        nx == next[s.curr][s.level]
    IN
    /\ s.pc = "pr_load"
    /\ Finish(t, IF predStop(nx, s.arg) THEN predDown(s)
                 ELSE [s EXCEPT !.right = nx, !.pc = "pr_marked"])
    /\ UNCHANGED <<nodeVars, trieVars>>

\* line 545 without the Load: every node counts as unmarked
predSkipNever(n) == FALSE

\* line 545: next.marked.Load(), whether next is passed over
predSkip(n) == marked[n]

\* lines 545-547: !next.marked.Load(); curr = next
pr_marked(t) ==
    LET s == th[t] IN
    /\ s.pc = "pr_marked"
    /\ Finish(t, IF ~predSkip(s.right)
                 THEN [s EXCEPT !.curr = s.right, !.right = NIL, !.pc = "pr_load"]
                 ELSE [s EXCEPT !.pc = "pr_next"])
    /\ UNCHANGED <<nodeVars, trieVars>>

\* line 549: nextNext := next.next[level].Load() (kept in nextRight)
pr_next(t) ==
    LET s == th[t] IN
    /\ s.pc = "pr_next"
    /\ Finish(t, [s EXCEPT !.nextRight = next[s.right][s.level], !.pc = "pr_cas"])
    /\ UNCHANGED <<nodeVars, trieVars>>

\* line 550: curr.next[level].CompareAndSwap(next, nextNext)
pr_cas(t) ==
    LET s == th[t]
        ok == next[s.curr][s.level] = s.right
    IN
    /\ s.pc = "pr_cas"
    /\ next' = IF ok THEN [next EXCEPT ![s.curr][s.level] = s.nextRight] ELSE next
    /\ Finish(t, [s EXCEPT !.right = NIL, !.nextRight = NIL, !.pc = "pr_load"])
    /\ UNCHANGED <<key, origHeight, marked, ready, stop, prev, back, nalloc, trieVars>>

\* ----------------------------------------------------------------- Contains
\* lines 566 and 570 with >= for ==
containsKeyAtLeast(c, k) == c # NIL /\ key[c] >= k

\* the test of lines 566 and 570 before its marked.Load
containsKey(c, k) == c # NIL /\ key[c] = k

\* the result of lines 566 and 570 given the mark that was loaded
containsResult(m) == ~m

\* lines 564-569: head.next[0].Load() or pred.next[0].Load()
con_load(t) ==
    LET s == th[t]
        c == IF s.pred = NIL THEN next[head][0] ELSE next[s.pred][0]
    IN
    /\ s.pc = "con_load"
    /\ Finish(t, IF containsKey(c, s.arg) THEN [s EXCEPT !.curr = c, !.pc = "con_marked"]
                 ELSE Return(s, FALSE))
    /\ UNCHANGED <<nodeVars, trieVars>>

\* lines 566, 570: !curr.marked.Load()
con_marked(t) ==
    LET s == th[t] IN
    /\ s.pc = "con_marked"
    /\ Finish(t, Return(s, containsResult(marked[s.curr])))
    /\ UNCHANGED <<nodeVars, trieVars>>

\* ------------------------------------------------------------------- Delete
\* lines 469-480: the test of the scan loop, then the test for the exact key
delScan(s) ==
    IF s.curr # NIL /\ key[s.curr] < s.arg THEN [s EXCEPT !.pc = "del_scan"]
    ELSE IF s.curr = NIL \/ key[s.curr] # s.arg THEN Return(s, FALSE)
    ELSE [s EXCEPT !.node = s.curr, !.curr = NIL, !.pred = NIL, !.pc = "sd_mark"]

\* lines 461-466: curr = pred.next[0].Load() or head.next[0].Load()
del_first(t) ==
    LET s == th[t]
        from == IF s.pred # NIL /\ s.pred # head THEN s.pred ELSE head
    IN
    /\ s.pc = "del_first"
    /\ Finish(t, delScan([s EXCEPT !.curr = next[from][0]]))
    /\ UNCHANGED <<nodeVars, trieVars>>

\* line 470: curr = curr.next[0].Load()
del_scan(t) ==
    LET s == th[t] IN
    /\ s.pc = "del_scan"
    /\ Finish(t, delScan([s EXCEPT !.curr = next[s.curr][0]]))
    /\ UNCHANGED <<nodeVars, trieVars>>

\* line 246 as a plain Store(true)
markStore(n) == TRUE

\* line 246 as CompareAndSwap(true, true)
markCasTrue(n) == marked[n]

\* whether node.marked.CompareAndSwap(false, true) of line 246 succeeds
markCas(n) == ~marked[n]

\* lines 246-248
sd_mark(t) ==
    LET s == th[t] IN
    /\ s.pc = "sd_mark"
    /\ marked' = IF markCas(s.node) THEN [marked EXCEPT ![s.node] = TRUE] ELSE marked
    /\ Finish(t, IF markCas(s.node) THEN [s EXCEPT !.pc = "sd_stop"] ELSE Return(s, FALSE))
    /\ UNCHANGED <<key, origHeight, next, ready, stop, prev, back, nalloc, trieVars>>

\* line 251: node.stop.Store(true); then the first listSearch of line 256
sd_stop(t) ==
    LET s == th[t] IN
    /\ s.pc = "sd_stop"
    /\ stop' = [stop EXCEPT ![s.node] = TRUE]
    /\ Finish(t, lsCall(s, head, origHeight[s.node] - 1, "sd_ret"))
    /\ UNCHANGED <<key, origHeight, next, marked, ready, prev, back, nalloc, trieVars>>

\* the next index of the loop of line 492, or the end of Delete (line 487)
dtNext(s) ==
    IF s.i + 1 < KeyBits
    THEN [s EXCEPT !.i = @ + 1, !.tn = NoTn, !.curr = NIL, !.pred = NIL, !.pc = "dt_load"]
    ELSE Return(s, TRUE)

\* skiplistDelete returns true (line 268); Delete goes on at line 483
sdDone(s) ==
    LET c == [s EXCEPT !.left = NIL, !.right = NIL, !.nextRight = NIL, !.level = 0]
    IN  IF origHeight[s.node] = LogLogU
        THEN [c EXCEPT !.i = 0, !.tn = NoTn, !.curr = NIL, !.pc = "dt_load"]
        ELSE Return(c, TRUE)

\* line 254 with a return after the first turn of the loop: the node is
\* unlinked at its top level only
sdDownOnce(s) == sdDone(s)

\* the next level of the loop of line 254
sdDown(s) ==
    IF s.level > 0 THEN lsCall(s, head, s.level - 1, "sd_ret") ELSE sdDone(s)

\* lines 256-259: listSearch returned
sdRet(s) ==
    IF s.right # s.node THEN sdDown(s) ELSE [s EXCEPT !.pc = "sd_next"]

\* line 261: next := node.next[level].Load() (kept in nextRight)
sd_next(t) ==
    LET s == th[t] IN
    /\ s.pc = "sd_next"
    /\ Finish(t, [s EXCEPT !.nextRight = next[s.node][s.level], !.pc = "sd_cas"])
    /\ UNCHANGED <<nodeVars, trieVars>>

\* lines 262-264: left.next[level].CompareAndSwap(node, next)
sd_cas(t) ==
    LET s == th[t]
        ok == next[s.left][s.level] = s.node
    IN
    /\ s.pc = "sd_cas"
    /\ next' = IF ok THEN [next EXCEPT ![s.left][s.level] = s.nextRight] ELSE next
    /\ Finish(t, IF ok THEN sdDown(s) ELSE lsCall(s, head, s.level, "sd_ret"))
    /\ UNCHANGED <<key, origHeight, marked, ready, stop, prev, back, nalloc, trieVars>>

\* ----------------------------------------------------------- deleteFromTrie
\* lines 499-505: prefixes.Load(prefix)
dt_load(t) ==
    LET s == th[t]
        p == triePrefix(s)
    IN
    /\ s.pc = "dt_load"
    /\ Finish(t, IF p \in DOMAIN prefixes THEN [s EXCEPT !.tn = prefixes[p], !.pc = "dt_curr"]
                 ELSE dtNext(s))
    /\ UNCHANGED <<nodeVars, trieVars>>

\* lines 505-509, 525: curr := tn.pointers[direction].Load(); curr == node
dt_curr(t) ==
    LET s == th[t]
        c == pointers[s.tn][trieDir(s) + 1]
    IN
    /\ s.pc = "dt_curr"
    /\ Finish(t, IF c = s.node THEN lsCall(s, head, LogLogU - 1, "dt_ret")
                 ELSE [s EXCEPT !.pc = "dt_chk0"])
    /\ UNCHANGED <<nodeVars, trieVars>>

\* lines 511-523: the replacement that is swapped in (nil: the subtree is empty)
replacement(s) ==
    LET r == IF trieDir(s) = 0 THEN s.left ELSE s.right
    IN  IF r # NIL /\ isPrefixOf(triePrefix(s), key[r]) THEN r ELSE NIL

\* lines 509-517: listSearch returned
dtRet(s) ==
    [s EXCEPT !.pred = replacement(s), !.left = NIL, !.right = NIL,
              !.level = 0, !.pc = "dt_cas"]

\* lines 519, 522: tn.pointers[direction].CompareAndSwap(curr, replacement)
dt_cas(t) ==
    LET s == th[t]
        d == trieDir(s) + 1
    IN
    /\ s.pc = "dt_cas"
    /\ pointers' = IF pointers[s.tn][d] = s.node
                   THEN [pointers EXCEPT ![s.tn][d] = s.pred] ELSE pointers
    /\ Finish(t, [s EXCEPT !.pred = NIL, !.pc = "dt_curr"])
    /\ UNCHANGED <<nodeVars, prefixes>>

\* line 529: tn.pointers[0].Load() == nil
dt_chk0(t) ==
    LET s == th[t] IN
    /\ s.pc = "dt_chk0"
    /\ Finish(t, IF pointers[s.tn][1] = NIL THEN [s EXCEPT !.pc = "dt_chk1"] ELSE dtNext(s))
    /\ UNCHANGED <<nodeVars, trieVars>>

\* line 529: tn.pointers[1].Load() == nil
dt_chk1(t) ==
    LET s == th[t] IN
    /\ s.pc = "dt_chk1"
    /\ Finish(t, IF pointers[s.tn][2] = NIL THEN [s EXCEPT !.pc = "dt_del"] ELSE dtNext(s))
    /\ UNCHANGED <<nodeVars, trieVars>>

\* line 530: prefixes.Delete(prefix)
dt_del(t) ==
    LET s == th[t]
        p == triePrefix(s)
    IN
    /\ s.pc = "dt_del"
    /\ prefixes' = [q \in DOMAIN prefixes \ {p} |-> prefixes[q]]
    /\ Finish(t, dtNext(s))
    /\ UNCHANGED <<nodeVars, pointers>>


\* ----------------------------------------------------- listSearch, the loop
\* listSearch returns (s.left, s.right) to its caller (lines 130, 141),
\* which goes on to its next access of shared memory
lsReturn(s) ==
    LET r == [s EXCEPT !.start = NIL, !.nextRight = NIL, !.spin = FALSE,
                       !.ret = "none"]
    IN  CASE s.ret = "ins_search" -> insSearch(r)
          [] s.ret = "ins_retry" -> insRetry(r)
          [] s.ret = "fp_ret" -> fpRet(r)
          [] s.ret = "sd_ret" -> sdRet(r)
          [] s.ret = "dt_ret" -> dtRet(r)

\* lines 92-96 without the bound on the iterations: the loop as for { }
lsAgainNoCap(s, stuck, last) ==
    [s EXCEPT !.spin = s.spin \/ stuck, !.left = s.start, !.right = NIL,
              !.nextRight = NIL, !.pc = "ls_load"]

\* the end of a failed iteration of the outer loop (lines 92-96, 135-141):
\* the next iteration, or the fallback return of line 141 when the cap is
\* reached.  stuck: the iteration would fail again in the present state;
\* last: it was iteration number maxIterations
lsAgain(s, stuck, last) ==
    IF (s.spin \/ stuck) /\ last THEN lsReturn(s)
    ELSE [s EXCEPT !.spin = s.spin \/ stuck, !.left = s.start, !.right = NIL,
                   !.nextRight = NIL, !.pc = "ls_load"]

\* the test of line 111 up to its marked.Load, then that of line 127
lsFind(s) ==
    IF s.right # NIL /\ key[s.right] < s.arg THEN [s EXCEPT !.pc = "ls_find"]
    ELSE IF s.right = NIL THEN [s EXCEPT !.pc = "ls_vnext"]
    ELSE [s EXCEPT !.pc = "ls_vmarked"]

\* lines 99 and 116 without the test right != nil
lsSkipNoNil(s) == [s EXCEPT !.pc = "ls_skip"]

\* the test of lines 99 and 116 up to its marked.Load
lsSkip(s) ==
    IF s.right # NIL THEN [s EXCEPT !.pc = "ls_skip"] ELSE lsFind(s)

\* lines 96, 113: right = left.next[level].Load()
ls_load(t) ==
    LET s == th[t] IN
    /\ s.pc = "ls_load"
    /\ Finish(t, lsSkip([s EXCEPT !.right = next[s.left][s.level]]))
    /\ UNCHANGED <<nodeVars, trieVars>>

\* lines 99, 116: right.marked.Load()
ls_skip(t) ==
    LET s == th[t] IN
    /\ s.pc = "ls_skip"
    /\ Finish(t, IF marked[s.right] THEN [s EXCEPT !.pc = "ls_skipnext"] ELSE lsFind(s))
    /\ UNCHANGED <<nodeVars, trieVars>>

\* lines 100, 117: nextRight := right.next[level].Load()
ls_skipnext(t) ==
    LET s == th[t] IN
    /\ s.pc = "ls_skipnext"
    /\ Finish(t, [s EXCEPT !.nextRight = next[s.right][s.level], !.pc = "ls_cas"])
    /\ UNCHANGED <<nodeVars, trieVars>>

\* lines 102-107, 118-122: left.next[level].CompareAndSwap(right, nextRight)
ls_cas(t) ==
    LET s == th[t]
        ok == next[s.left][s.level] = s.right
    IN
    /\ s.pc = "ls_cas"
    /\ next' = IF ok THEN [next EXCEPT ![s.left][s.level] = s.nextRight] ELSE next
    /\ Finish(t, IF ok THEN lsSkip([s EXCEPT !.right = s.nextRight, !.nextRight = NIL])
                 ELSE lsFind([s EXCEPT !.nextRight = NIL]))
    /\ UNCHANGED <<key, origHeight, marked, ready, stop, prev, back, nalloc, trieVars>>

\* line 111: !right.marked.Load(), then left = right (112)
ls_find(t) ==
    LET s == th[t] IN
    /\ s.pc = "ls_find"
    /\ Finish(t, IF marked[s.right] THEN [s EXCEPT !.pc = "ls_vmarked"]
                 ELSE [s EXCEPT !.left = s.right, !.right = NIL, !.pc = "ls_load"])
    /\ UNCHANGED <<nodeVars, trieVars>>

\* line 127: !right.marked.Load()
ls_vmarked(t) ==
    LET s == th[t] IN
    /\ s.pc = "ls_vmarked"
    /\ \E last \in BOOLEAN :
           Finish(t, IF marked[s.right] THEN lsAgain(s, FALSE, last)
                     ELSE [s EXCEPT !.pc = "ls_vnext"])
    /\ UNCHANGED <<nodeVars, trieVars>>

\* lines 128-129: leftNext := left.next[level].Load(); leftNext == right
ls_vnext(t) ==
    LET s == th[t] IN
    /\ s.pc = "ls_vnext"
    /\ \E last \in BOOLEAN :
           Finish(t, IF next[s.left][s.level] = s.right THEN [s EXCEPT !.pc = "ls_vleft"]
                     ELSE lsAgain(s, FALSE, last))
    /\ UNCHANGED <<nodeVars, trieVars>>

\* line 129: !left.marked.Load().  When left is still start, start is
\* marked, and right is still its unmarked successor, the next iteration
\* reads the same values and fails in the same way
ls_vleft(t) ==
    LET s == th[t]
        stuck == /\ s.left = s.start
                 /\ next[s.start][s.level] = s.right
                 /\ (s.right = NIL \/ ~marked[s.right])
    IN
    /\ s.pc = "ls_vleft"
    /\ \E last \in BOOLEAN :
           Finish(t, IF ~marked[s.left] THEN lsReturn(s) ELSE lsAgain(s, stuck, last))
    /\ UNCHANGED <<nodeVars, trieVars>>

\* the record of a thread that starts the next iteration of listSearch
lsIterated(s, spin) ==
    [s EXCEPT !.spin = spin, !.left = s.start, !.right = NIL,
              !.nextRight = NIL, !.pc = "ls_load"]

\* the step is the return of thread t's listSearch (line 130 or 141): t
\* stood in the test of lines 127-129 and neither goes on in it nor starts
\* the next iteration
lsReturns(t) ==
    LET s == th[t] IN
    /\ s.pc \in {"ls_vmarked", "ls_vnext", "ls_vleft"}
    /\ th'[t].pc \notin {s.pc, "ls_vnext", "ls_vleft"}
    /\ th'[t] \notin {lsIterated(s, TRUE), lsIterated(s, FALSE)}

\* ------------------------------------------------------------- public calls
\* of max nodes, one is left for every Insert in progress and for one more
RoomFor(t, max) ==
    nalloc + Cardinality({u \in Threads \ {t} :
                            Active(u) /\ th[u].op = "Insert" /\ th[u].node = NIL})
        < max + 2

\* Insert(key): line 392, skiplistInsert up to its first listSearch
\* (146-171); h is the height that randomHeight returns
Insert(t, k, h, n) ==
    /\ Call(t, "Insert", k, lsCall([Idle EXCEPT !.height = h], head, h - 1, "ins_search"), n)
    /\ UNCHANGED <<nodeVars, trieVars>>

\* Delete(key): lines 456-459
Delete(t, k, n) ==
    /\ Call(t, "Delete", k, IF k > 0 THEN predCall(Idle, "Delete")
                            ELSE [Idle EXCEPT !.pred = head, !.pc = "del_first"], n)
    /\ UNCHANGED <<nodeVars, trieVars>>

\* Contains(key): line 563
Contains(t, k, n) ==
    /\ Call(t, "Contains", k, predCall(Idle, "Contains"), n)
    /\ UNCHANGED <<nodeVars, trieVars>>

\* Predecessor(key): line 538
Predecessor(t, k, n) ==
    /\ Call(t, "Predecessor", k, predCall(Idle, "Predecessor"), n)
    /\ UNCHANGED <<nodeVars, trieVars>>

\* randomHeight (76-85): any height from 1 to LogLogU
Heights == 1 .. LogLogU

\* ------------------------------------------------- sequential specification
\* One thread makes one call after the other, any number of calls, until
\* SeqNodes nodes have been linked.  The steps that only a concurrent
\* change can lead to (a failed CompareAndSwap, a marked node that is still
\* linked) are left out of SeqNext: NoRace says that the thread never
\* stands before one of them.
SeqKeys == {0, 1, MaxKey - 1}
SeqHeights == {1, 2, LogLogU}
SeqQueries == {0, 1, 2, MaxKey - 1, MaxKey}

SeqInsert == \E k \in SeqKeys, h \in SeqHeights : RoomFor(1, SeqNodes) /\ Insert(1, k, h, 0)
SeqDelete == \E k \in SeqKeys : Delete(1, k, 0)
SeqContains == \E k \in SeqQueries \ {MaxKey} : Contains(1, k, 0)
SeqPredecessor == \E k \in SeqQueries : Predecessor(1, k, 0)

SeqNext ==
    \/ SeqInsert \/ SeqDelete \/ SeqContains \/ SeqPredecessor \/ Resume(1)
    \/ ls_load(1) \/ ls_skip(1) \/ ls_skipnext(1) \/ ls_cas(1) \/ ls_find(1)
    \/ ls_vmarked(1) \/ ls_vnext(1) \/ ls_vleft(1)
    \/ ins_stop(1) \/ ins_cas(1)
    \/ fp_marked(1) \/ fp_prev(1) \/ fp_ready(1)
    \/ it_marked(1) \/ it_los(1) \/ it_new(1) \/ it_load(1) \/ it_casnil(1) \/ it_cas(1)
    \/ pr_load(1) \/ pr_marked(1)
    \/ con_load(1) \/ con_marked(1)
    \/ del_first(1) \/ sd_mark(1) \/ sd_stop(1)
    \/ dt_load(1) \/ dt_curr(1) \/ dt_cas(1)
    \/ dt_chk0(1) \/ dt_chk1(1) \/ dt_del(1)

SpecSeq == Init /\ [][SeqNext]_vars

RacePcs == {"del_scan", "sd_next", "sd_cas", "fp_force", "pr_next", "pr_cas"}
NoRace == th[1].pc \notin RacePcs

\* ------------------------------------------------- concurrent specification
\* Two threads make MaxOps calls of Insert, Delete and Contains between
\* them, on two keys and with nodes below full height, in any interleaving
\* of their steps.  Threads carry nothing from one call to the next, so the
\* call that starts while no other is in progress is always thread 1's.
ConcKeys == {1, 2}
ConcHeights == {1, 2}

\* t may call when the threads before it are busy
InTurn(t) == \A u \in Threads : u < t => Active(u)

ConcInsert(t) ==
    \E k \in ConcKeys, h \in ConcHeights :
        InTurn(t) /\ RoomFor(t, MaxNodes) /\ Insert(t, k, h, 1)
ConcDelete(t) == \E k \in ConcKeys : InTurn(t) /\ Delete(t, k, 1)
ConcContains(t) == \E k \in ConcKeys : InTurn(t) /\ Contains(t, k, 1)

\* the steps of the skip list
ListStep(t) ==
    \/ Resume(t)
    \/ ls_load(t) \/ ls_skip(t) \/ ls_skipnext(t) \/ ls_cas(t) \/ ls_find(t)
    \/ ls_vmarked(t) \/ ls_vnext(t) \/ ls_vleft(t)
    \/ ins_stop(t) \/ ins_cas(t)
    \/ pr_load(t) \/ pr_marked(t) \/ pr_next(t) \/ pr_cas(t)
    \/ con_load(t) \/ con_marked(t)
    \/ del_first(t) \/ del_scan(t) \/ sd_mark(t) \/ sd_stop(t)

ConcNext ==
    \E t \in Pair :
        ConcInsert(t) \/ ConcDelete(t) \/ ConcContains(t) \/ ListStep(t)

SpecConc == Init /\ [][ConcNext]_vars

\* the listSearch of skiplistDelete starts at head, which is never marked,
\* so it returns with the node unlinked and lines 259-265 are not reached
NoExplicitUnlink == \A t \in Threads : th[t].pc \notin {"sd_next", "sd_cas"}

\* ------------------------------------------------------------- inserts only
\* Threads insert keys no two calls share, and nothing is deleted; Contains
\* is called when no call is in progress, and runs alone.
Quiet == \A u \in Threads : ~Active(u)
Querying == \E u \in Threads : Active(u) /\ th[u].op = "Contains"

InsKeys == 1 .. MaxNodes
InsHeights == {1, 2, LogLogU}

InsInsert(t) ==
    \E k \in InsKeys \ hist.insInv, h \in InsHeights :
        InTurn(t) /\ ~Querying /\ Insert(t, k, h, 0)
InsContains == \E k \in InsKeys : Quiet /\ Contains(1, k, 0)

InsStep(t) ==
    \/ Resume(t)
    \/ ls_load(t) \/ ls_skip(t) \/ ls_find(t)
    \/ ls_vmarked(t) \/ ls_vnext(t) \/ ls_vleft(t)
    \/ ins_stop(t) \/ ins_cas(t)
    \/ pr_load(t) \/ pr_marked(t)
    \/ con_load(t) \/ con_marked(t)
    \/ fp_marked(t) \/ fp_prev(t) \/ fp_ready(t)
    \/ it_marked(t) \/ it_los(t) \/ it_new(t) \/ it_load(t) \/ it_casnil(t) \/ it_cas(t)

InsNext == InsContains \/ \E t \in Pair : InsInsert(t) \/ InsStep(t)

SpecIns == Init /\ [][InsNext]_vars

\* with no node marked no thread comes to a step left out of InsStep
InsPcs ==
    {"idle", "done", "ls_load", "ls_skip", "ls_find", "ls_vmarked", "ls_vnext",
     "ls_vleft", "ins_stop", "ins_cas", "pr_load", "pr_marked", "con_load",
     "con_marked", "fp_marked", "fp_prev", "fp_ready", "it_marked", "it_los",
     "it_new", "it_load", "it_casnil", "it_cas"}
InsOnly == \A t \in Threads : th[t].pc \in InsPcs

\* ------------------------------------------------------------- deletes only
\* Thread 1 builds the set DelKeys alone, in the order of the keys; then
\* threads delete member keys, no two calls the same key, and nothing is
\* inserted any more; Contains is called when no call is in progress, and
\* runs alone.  (A smaller set is what is left when some of the Deletes
\* have run alone.)
DelKeys == 1 .. MaxNodes
DelHeights == {1, 2}

DelInsert ==
    \E k \in DelKeys, h \in DelHeights :
        /\ hist.delInv = {}
        /\ \A m \in hist.insInv : m < k
        /\ Insert(1, k, h, 0)
DelDelete(t) ==
    \E k \in hist.members \ hist.delInv :
        /\ hist.members \cup hist.delInv = DelKeys
        /\ InTurn(t) /\ ~Querying
        /\ \A u \in Threads : Active(u) => th[u].op = "Delete"
        /\ Delete(t, k, 0)
DelContains == \E k \in DelKeys : Quiet /\ hist.delInv # {} /\ Contains(1, k, 0)

DelStep(t) ==
    \/ Resume(t)
    \/ ls_load(t) \/ ls_skip(t) \/ ls_skipnext(t) \/ ls_cas(t) \/ ls_find(t)
    \/ ls_vmarked(t) \/ ls_vnext(t) \/ ls_vleft(t)
    \/ ins_stop(t) \/ ins_cas(t)
    \/ pr_load(t) \/ pr_marked(t) \/ pr_next(t) \/ pr_cas(t)
    \/ con_load(t) \/ con_marked(t)
    \/ del_first(t) \/ sd_mark(t) \/ sd_stop(t)

DelNext == DelInsert \/ DelContains \/ \E t \in Pair : DelDelete(t) \/ DelStep(t)

SpecDel == Init /\ [][DelNext]_vars

\* no thread comes to a step left out of DelStep
DelOnly == \A t \in Threads : th[t].pc \notin {"del_scan", "sd_next", "sd_cas"}

\* ------------------------------------------------------- three goroutines
\* Three threads share the set, with nodes of height 1.  Thread 1 inserts 1
\* alone; then thread 2 inserts 4 while thread 3 inserts 4 as well and 2
\* after it, and thread 1 deletes 1, inserts 3 and deletes 3: every call
\* once, in any interleaving of the steps of the three threads.
MixHeights == {1}

MixBuild == \E h \in MixHeights : hist.insInv = {} /\ Insert(1, 1, h, 0)

MixInsert(t) ==
    \E k \in {2, 3, 4}, h \in MixHeights :
        /\ hist.insOK # {}
        /\ \/ t = 2 /\ k = 4 /\ 4 \notin hist.insInv
           \/ t = 3 /\ k = 4 /\ 4 \notin hist.overlap /\ Active(2)
           \/ t = 3 /\ k = 2 /\ 4 \in hist.overlap /\ 2 \notin hist.insInv
           \/ t = 1 /\ k = 3 /\ 1 \in hist.delInv /\ 3 \notin hist.insInv
        /\ Insert(t, k, h, 0)

MixDelete(t) ==
    \E k \in {1, 3} :
        /\ t = 1 /\ k \in hist.insInv \ hist.delInv
        /\ k = 1 => 4 \in hist.insInv
        /\ Delete(t, k, 0)

MixStep(t) ==
    \/ Resume(t)
    \/ ls_load(t) \/ ls_skip(t) \/ ls_skipnext(t) \/ ls_cas(t) \/ ls_find(t)
    \/ ls_vmarked(t) \/ ls_vnext(t) \/ ls_vleft(t)
    \/ ins_cas(t)
    \/ pr_load(t) \/ pr_marked(t)
    \/ del_first(t) \/ del_scan(t) \/ sd_mark(t) \/ sd_stop(t)

MixNext == MixBuild \/ \E t \in Threads : MixInsert(t) \/ MixDelete(t) \/ MixStep(t)

SpecMix == Init /\ [][MixNext]_vars

\* no thread comes to a step left out of MixStep
MixOnly ==
    \A t \in Threads :
        th[t].pc \notin {"ins_stop", "pr_next", "pr_cas", "sd_next", "sd_cas",
                         "con_load", "con_marked"}

\* ------------------------------------------------------- the sentinels' keys
\* One thread makes one call after the other with the keys 0 and MaxKey
\* (the keys of head and tail) and the key 1, until SeqNodes nodes have been
\* linked; the first Delete, and Contains before the first Insert and
\* Delete, are called with any key of the universe.
EdgeKeys == {0, 1, MaxKey}
EdgeHeights == {1, LogLogU}

EdgeInsert == \E k \in EdgeKeys, h \in EdgeHeights : RoomFor(1, SeqNodes) /\ Insert(1, k, h, 0)
EdgeFirst == hist.insInv = {} /\ hist.delInv = {}
EdgeDelete == \E k \in KeyUniverse : (k \in EdgeKeys \/ EdgeFirst) /\ Delete(1, k, 0)
EdgeContains == \E k \in KeyUniverse : (k \in EdgeKeys \/ EdgeFirst) /\ Contains(1, k, 0)

EdgeNext ==
    \/ EdgeInsert \/ EdgeDelete \/ EdgeContains \/ Resume(1)
    \/ ls_load(1) \/ ls_skip(1) \/ ls_skipnext(1) \/ ls_cas(1) \/ ls_find(1)
    \/ ls_vmarked(1) \/ ls_vnext(1) \/ ls_vleft(1)
    \/ ins_stop(1) \/ ins_cas(1)
    \/ fp_marked(1) \/ fp_prev(1) \/ fp_ready(1)
    \/ it_marked(1) \/ it_los(1) \/ it_new(1) \/ it_load(1) \/ it_casnil(1) \/ it_cas(1)
    \/ pr_load(1) \/ pr_marked(1)
    \/ con_load(1) \/ con_marked(1)
    \/ del_first(1) \/ sd_mark(1) \/ sd_stop(1)
    \/ dt_load(1) \/ dt_curr(1) \/ dt_cas(1)
    \/ dt_chk0(1) \/ dt_chk1(1) \/ dt_del(1)

SpecEdge == Init /\ [][EdgeNext]_vars

\* --------------------------------------------------- insert, then delete
\* One thread inserts a set of distinct keys of [0, u-2], one call after
\* the other, and then deletes each of them once.
TripKeys == {0, 1, 4, MaxKey - 1}
TripHeights == {1, LogLogU}

TripInsert ==
    \E k \in TripKeys \ hist.insInv, h \in TripHeights :
        hist.delInv = {} /\ Insert(1, k, h, 0)
TripDelete == \E k \in hist.insInv \ hist.delInv : Delete(1, k, 0)

TripNext ==
    \/ TripInsert \/ TripDelete \/ Resume(1)
    \/ ls_load(1) \/ ls_skip(1) \/ ls_skipnext(1) \/ ls_cas(1) \/ ls_find(1)
    \/ ls_vmarked(1) \/ ls_vnext(1) \/ ls_vleft(1)
    \/ ins_stop(1) \/ ins_cas(1)
    \/ fp_marked(1) \/ fp_prev(1) \/ fp_ready(1)
    \/ it_marked(1) \/ it_los(1) \/ it_new(1) \/ it_load(1) \/ it_casnil(1) \/ it_cas(1)
    \/ pr_load(1) \/ pr_marked(1)
    \/ del_first(1) \/ sd_mark(1) \/ sd_stop(1)
    \/ dt_load(1) \/ dt_curr(1) \/ dt_cas(1)
    \/ dt_chk0(1) \/ dt_chk1(1) \/ dt_del(1)

SpecTrip == Init /\ [][TripNext]_vars

\* ------------------------------------------- a query beside two updates
\* Key 1 is inserted first, alone.  Then thread 1 makes queries (Contains
\* or Predecessor), thread 2 inserts key 2 and thread 3 deletes key 1, all
\* at the same time.
QueryHeights == {1, 2}
QueryKeys == {2, 3}

QueryBuild == \E h \in QueryHeights : hist.insInv = {} /\ Insert(1, 1, h, 1)
QueryContains == \E k \in QueryKeys : hist.insOK # {} /\ Contains(1, k, 1)
QueryPredecessor == \E k \in QueryKeys : hist.insOK # {} /\ Predecessor(1, k, 1)
QueryInsert == \E h \in QueryHeights : hist.insOK # {} /\ 2 \notin hist.insInv /\ Insert(2, 2, h, 0)
QueryDelete == hist.insOK # {} /\ 1 \notin hist.delInv /\ Delete(3, 1, 0)

QueryStep(t) ==
    \/ Resume(t)
    \/ ls_load(t) \/ ls_skip(t) \/ ls_skipnext(t) \/ ls_cas(t) \/ ls_find(t)
    \/ ls_vmarked(t) \/ ls_vnext(t) \/ ls_vleft(t)
    \/ ins_stop(t) \/ ins_cas(t)
    \/ pr_load(t) \/ pr_marked(t) \/ pr_next(t) \/ pr_cas(t)
    \/ con_load(t) \/ con_marked(t)
    \/ del_first(t) \/ sd_mark(t) \/ sd_stop(t)

QueryNext ==
    \/ QueryBuild \/ QueryContains \/ QueryPredecessor \/ QueryInsert \/ QueryDelete
    \/ \E t \in Threads : QueryStep(t)

SpecQuery == Init /\ [][QueryNext]_vars

\* no thread comes to stand before a step that QueryStep leaves out
QueryOnly == \A t \in Threads : th[t].pc \notin {"del_scan", "sd_next", "sd_cas"}

\* ------------------------------------- a retry that starts at a marked node
\* Key 1 is inserted first, alone, with height 1.  Then thread 1 inserts
\* key 2, thread 2 inserts key 3 and deletes it again, and thread 3 deletes
\* key 1, all nodes of height 1.
CapHeights == {1}

CapBuild == \E h \in CapHeights : hist.insInv = {} /\ Insert(1, 1, h, 0)
CapInsert(t) ==
    \E k \in {2, 3}, h \in CapHeights :
        /\ hist.insOK # {} /\ k \notin hist.insInv
        /\ (t = 1 /\ k = 2) \/ (t = 2 /\ k = 3)
        /\ Insert(t, k, h, 0)
CapDelete(t) ==
    \E k \in {1, 3} :
        /\ hist.insOK # {} /\ k \notin hist.delInv
        /\ (t = 3 /\ k = 1) \/ (t = 2 /\ k = 3 /\ 3 \in hist.insInv)
        /\ Delete(t, k, 0)

CapStep(t) ==
    \/ Resume(t)
    \/ ls_load(t) \/ ls_skip(t) \/ ls_skipnext(t) \/ ls_cas(t) \/ ls_find(t)
    \/ ls_vmarked(t) \/ ls_vnext(t) \/ ls_vleft(t)
    \/ ins_cas(t)
    \/ pr_load(t) \/ pr_marked(t) \/ pr_next(t) \/ pr_cas(t)
    \/ del_first(t) \/ del_scan(t) \/ sd_mark(t) \/ sd_stop(t)

CapNext == CapBuild \/ \E t \in Threads : CapInsert(t) \/ CapDelete(t) \/ CapStep(t)

SpecCap == Init /\ [][CapNext]_vars

\* no thread comes to stand before a step that CapStep leaves out
CapOnly == \A t \in Threads : th[t].pc \notin {"ins_stop", "sd_next", "sd_cas"}

\* ------------------------------------------- two goroutines, full height
\* Every node has height LogLogU, so every Insert runs fixPrev and
\* insertIntoTrie and every Delete that finds its node runs deleteFromTrie.
\* Thread 1 calls Insert and thread 2 calls Delete, at the same time, on two
\* keys that share a prefix, at most TopOps calls in all.
TopKeys == {0, 1}
TopHeights == {LogLogU}
TopOps == 3

TopInsert ==
    \E k \in TopKeys, h \in TopHeights :
        hist.nops < TopOps /\ RoomFor(1, SeqNodes) /\ Insert(1, k, h, 1)
TopDelete == \E k \in TopKeys : hist.nops < TopOps /\ Delete(2, k, 1)

TopStep(t) ==
    \/ Resume(t)
    \/ ls_load(t) \/ ls_skip(t) \/ ls_skipnext(t) \/ ls_cas(t) \/ ls_find(t)
    \/ ls_vmarked(t) \/ ls_vnext(t) \/ ls_vleft(t)
    \/ ins_stop(t) \/ ins_cas(t)
    \/ fp_marked(t) \/ fp_prev(t) \/ fp_ready(t)
    \/ it_marked(t) \/ it_los(t) \/ it_new(t) \/ it_load(t) \/ it_casnil(t) \/ it_cas(t)
    \/ pr_load(t) \/ pr_marked(t) \/ pr_next(t) \/ pr_cas(t)
    \/ del_first(t) \/ del_scan(t) \/ sd_mark(t) \/ sd_stop(t)
    \/ dt_load(t) \/ dt_curr(t) \/ dt_cas(t)
    \/ dt_chk0(t) \/ dt_chk1(t) \/ dt_del(t)

TopNext == TopInsert \/ TopDelete \/ \E t \in Pair : TopStep(t)

SpecTop == Init /\ [][TopNext]_vars

\* no thread comes to stand before a step that TopStep leaves out
TopOnly == \A t \in Threads : th[t].pc \notin {"fp_force", "sd_next", "sd_cas"}

\* ------------------------------------------------- a race that must end
\* Thread 1 inserts key 0 alone, with height LogLogU; then thread 1 inserts
\* key 1, whose predecessor at every level is the node of key 0, while
\* thread 2 deletes key 0.
TermInsert ==
    \/ hist.insInv = {} /\ Insert(1, 0, LogLogU, 0)
    \/ hist.insOK # {} /\ 1 \notin hist.insInv /\ Insert(1, 1, LogLogU, 0)
TermDelete == hist.insOK # {} /\ 0 \notin hist.delInv /\ Delete(2, 0, 0)

TermStep(t) ==
    \/ Resume(t)
    \/ ls_load(t) \/ ls_skip(t) \/ ls_skipnext(t) \/ ls_cas(t) \/ ls_find(t)
    \/ ls_vmarked(t) \/ ls_vnext(t) \/ ls_vleft(t)
    \/ ins_stop(t) \/ ins_cas(t)
    \/ fp_marked(t) \/ fp_prev(t) \/ fp_ready(t)
    \/ it_marked(t) \/ it_los(t) \/ it_new(t) \/ it_load(t) \/ it_casnil(t) \/ it_cas(t)
    \/ del_first(t) \/ sd_mark(t) \/ sd_stop(t)
    \/ dt_load(t) \/ dt_curr(t) \/ dt_cas(t) \/ dt_chk0(t)

TermNext == TermInsert \/ TermDelete \/ \E t \in Pair : TermStep(t)

SpecTerm == Init /\ [][TermNext]_vars

\* no thread comes to stand before a step that TermStep leaves out
TermOnly ==
    \A t \in Threads :
        th[t].pc \notin {"fp_force", "sd_next", "sd_cas", "del_scan", "dt_chk1",
                         "dt_del", "pr_load", "pr_marked", "pr_next", "pr_cas"}

\* Every goroutine that can take a step takes one in the end (the Go
\* scheduler is preemptive), and a listSearch whose iterations go on failing
\* comes to iteration maxIterations and returns (lines 92, 141).
FairTerm ==
    /\ SpecTerm
    /\ \A t \in Pair :
           /\ WF_vars(TermStep(t))
           /\ SF_vars((ls_vmarked(t) \/ ls_vnext(t) \/ ls_vleft(t)) /\ lsReturns(t))

\* ------------------------------------------------------------------- claims
Done(t, op) == th[t].pc = "done" /\ th[t].op = op

\* the largest element of a non-empty set of keys
MaxOf(S) == CHOOSE m \in S : \A x \in S : x <= m

\* C1: in a sequential run on keys of [0, u-2], with any heights, every
\* Insert, Delete and Contains returns what a mathematical set returns:
\* Insert(k) true iff k was absent, Delete(k) true iff k was present,
\* Contains(k) true iff k is present.  (exp is that answer, taken at the
\* call from the set of the keys inserted and not deleted so far.)
C1_ReferenceSet ==
    \A t \in Threads :
        (th[t].pc = "done" /\ th[t].op \in {"Insert", "Delete", "Contains"})
            => th[t].res = th[t].exp

\* a Contains that returns false for a key that was inserted and deleted,
\* while another key is still in the set
C1_Witness ==
    /\ Done(1, "Contains") /\ ~th[1].res
    /\ th[1].arg \in hist.insInv /\ th[1].arg \in hist.delInv
    /\ hist.members # {}

\* C2: in a sequential run Predecessor(k), k in [0, u-1], returns the node
\* of the largest member key below k, and nil when there is none, whatever
\* the heights of the nodes.
C2_Predecessor ==
    \A t \in Threads :
        Done(t, "Predecessor") =>
            LET below == {m \in hist.members : m < th[t].arg}
                c == th[t].curr
            IN  IF below = {} THEN c = NIL
                ELSE /\ c \notin {NIL, head, tail}
                     /\ key[c] = MaxOf(below)
                     /\ ~marked[c]

\* a Predecessor that returns the lower of two members, a node of height 1
\* that lies behind a node of full height with the larger key
C2_Witness ==
    /\ Done(1, "Predecessor") /\ th[1].curr # NIL
    /\ origHeight[th[1].curr] = 1
    /\ \E n \in NodeIds : /\ origHeight[n] = LogLogU /\ ~marked[n]
                          /\ key[n] \in hist.members /\ key[n] > key[th[1].curr]
                          /\ n \notin {head, tail}


\* n is reached from head along the forward pointers of level l
RECURSIVE ReachFrom(_, _, _, _)
ReachFrom(from, n, l, fuel) ==
    IF from = n THEN TRUE
    ELSE IF from = NIL \/ fuel = 0 THEN FALSE
    ELSE ReachFrom(next[from][l], n, l, fuel - 1)

Reachable(n, l) == ReachFrom(head, n, l, HeapNodes + 2)

\* C3 (as claimed): a Contains(k) returns true when k is a member during
\* the whole call: an Insert(k) returned true before the call, no Delete(k)
\* has returned true since or is in progress at the call, and no Delete(k)
\* is called during it; whatever is done to other keys meanwhile.
C3_ContainsMember ==
    \A t \in Threads : (Done(t, "Contains") /\ th[t].pre) => th[t].res

\* C4 (as claimed): the node of an Insert(k) that returned true stays
\* reachable from head at level 0 as long as it is unmarked, when no two
\* calls of Insert or Delete on k itself overlap.
C4_InsertNotLost ==
    \A n \in hist.insOK :
        (~marked[n] /\ key[n] \notin hist.overlap) => Reachable(n, 0)

\* C5 (as claimed): as long as Delete(k) was never called, at most one
\* Insert(k) has returned true.
C5_OneInsertWins ==
    \A k \in KeyUniverse :
        k \notin hist.delInv => Cardinality({n \in hist.insOK : key[n] = k}) <= 1

\* C6: on each node at most one Delete call returns true, in every
\* interleaving; every other Delete that reaches the node returns false.
C6_DeleteOnce == \A n \in NodeIds : hist.delCnt[n] <= 1

\* two Delete calls overlapped on one node: one returned true, the other,
\* which had reached the same node, returned false
C6_Witness ==
    \E t \in Threads :
        /\ Done(t, "Delete") /\ ~th[t].res
        /\ th[t].node # NIL /\ hist.delCnt[th[t].node] = 1
        /\ th[t].arg \in hist.overlap

\* C7 (as claimed): a Delete(k) returns true when k is a member during the
\* whole call (an Insert(k) returned true before it and no Delete(k) has
\* returned true since) and no other Delete(k) overlaps it.
C7_DeleteMember ==
    \A t \in Threads : (Done(t, "Delete") /\ th[t].pre) => th[t].res

C9_DisjointInserts ==
    \A t \in Threads :
        (Done(t, "Contains") /\ th[t].arg \in hist.insInv) => th[t].res

\* all the keys were inserted, by calls that overlapped, and the largest is
\* found
C9_Witness ==
    /\ Done(1, "Contains") /\ th[1].res /\ th[1].arg = MaxNodes
    /\ hist.insInv = InsKeys /\ hist.overlap = {} /\ hist.phase = "run"

\* C10: from a set built beforehand, when threads concurrently delete
\* member keys no two of them share and nothing is inserted, a Contains(k)
\* called once they have all returned is false for every deleted key and
\* true for every member key that was not deleted.
C10_DisjointDeletes ==
    \A t \in Threads :
        (Done(t, "Contains") /\ hist.delInv # {} /\ th[t].arg \in hist.insInv)
            => (th[t].res <=> th[t].arg \notin hist.delInv)

\* two keys were deleted by calls that overlapped, a third was kept and is
\* found
C10_Witness ==
    /\ Done(1, "Contains") /\ th[1].res
    /\ Cardinality(hist.delInv) >= 2 /\ hist.phase = "run"
    /\ \E k \in hist.delInv : k < th[1].arg

\* C11 (as claimed): in every state of every interleaving no two unmarked
\* nodes that are reachable from head along forward[0] have the same key
\* (the nodes are those that hold inserted keys, not the sentinels).
C11_Uniqueness ==
    \A a, b \in NodeIds \ {head, tail} :
        (a # b /\ ~marked[a] /\ ~marked[b] /\ Reachable(a, 0) /\ Reachable(b, 0))
            => key[a] # key[b]

\* C12 (as claimed): in every state of every interleaving, at every level
\* the nodes reached from head along that level's forward pointers have
\* strictly increasing keys: a reached node that holds an inserted key is
\* followed by the tail, by nothing, or by a node with a larger key.
C12_Order ==
    \A l \in Levels : \A n \in NodeIds \ {head, tail} :
        (Reachable(n, l) /\ next[n][l] \notin {NIL, tail})
            => (next[n][l] # head /\ key[n] < key[next[n][l]])

\* C13 (as claimed): in every state of every interleaving a node reachable
\* from head at a level l > 0 is reachable from head at level l - 1.
C13_Subset ==
    \A l \in Levels \ {0} : \A n \in NodeIds :
        Reachable(n, l) => Reachable(n, l - 1)

\* C14 (as claimed): on a newly created set (no Insert has been called and
\* no Delete has returned true before this call) Contains(k) and Delete(k)
\* return false for every key k of [0, u-1].
C14_NewSetEmpty ==
    \A t \in Threads :
        (/\ th[t].pc = "done" /\ th[t].op \in {"Contains", "Delete"}
         /\ hist.insInv = {}
         /\ \A n \in NodeIds : hist.delCnt[n] = 0 \/ (n = th[t].node /\ hist.delCnt[n] = 1))
            => ~th[t].res

\* C19 (as claimed): in every reachable state head and tail are unmarked
\* and the tail is reachable from head at every level, whatever the keys of
\* [0, u-1] the calls are made with.
C19_Sentinels ==
    /\ ~marked[head] /\ ~marked[tail]
    /\ \A l \in Levels : Reachable(tail, l)

\* C15: in a sequential run the key 0 lives beside the head, whose key is
\* 0 as well.  While 0 is not a member Contains(0) and Delete(0) return
\* false; while it is a member Contains(0) returns true, Predecessor(1)
\* returns the node that holds 0 (not nil, not the head), and Delete(0)
\* returns true on a node that is not the head; Predecessor(0) always returns
\* nil; the head is never marked and never stopped.
C15_KeyZero ==
    /\ ~marked[head] /\ ~stop[head] /\ key[head] = 0
    /\ \A t \in Threads :
        /\ (th[t].pc = "done" /\ th[t].op \in {"Contains", "Delete"} /\ th[t].arg = 0)
               => th[t].res = th[t].exp
        /\ (Done(t, "Delete") /\ th[t].arg = 0 /\ th[t].res)
               => (th[t].node \notin {NIL, head, tail} /\ key[th[t].node] = 0)
        /\ (Done(t, "Predecessor") /\ th[t].arg = 1 /\ 0 \in hist.members)
               => /\ th[t].curr \notin {NIL, head, tail}
                  /\ key[th[t].curr] = 0 /\ ~marked[th[t].curr]
        /\ (Done(t, "Predecessor") /\ th[t].arg = 0) => th[t].curr = NIL

\* Predecessor(0) returns nil while the node of key 0 is in the set, after an
\* earlier node of key 0 was deleted
C15_Witness ==
    /\ Done(1, "Predecessor") /\ th[1].arg = 0 /\ th[1].curr = NIL
    /\ 0 \in hist.members
    /\ \E n \in NodeIds \ {head, tail} : key[n] = 0 /\ hist.delCnt[n] = 1

\* C16 (as claimed): once a set of keys of [0, u-2] has been inserted, one
\* call after the other and with any heights, and each key has then been
\* deleted once, head's forward pointer is the tail at every level and the
\* trie index has no entry.
C16_RoundTrip ==
    (/\ th[1].pc \in {"idle", "done"}
     /\ hist.insInv # {} /\ hist.delInv = hist.insInv /\ hist.members = {})
        => /\ \A l \in Levels : next[head][l] = tail
           /\ DOMAIN prefixes = {}

\* C17 (as claimed): whenever no call is in progress in a sequential run of
\* Insert and Delete calls, every prefix that has an entry in the trie index
\* is a prefix of the key of some unmarked node of height L, not a sentinel,
\* that is reachable from head at the top level.
C17_TrieWitness ==
    th[1].pc \in {"idle", "done"} =>
        \A p \in DOMAIN prefixes :
            \E n \in NodeIds \ {head, tail} :
                /\ origHeight[n] = LogLogU /\ ~marked[n]
                /\ Reachable(n, Top)
                /\ isPrefixOf(p, key[n])

\* C18 (as claimed): the step by which an Insert call returns gives true
\* exactly when the call has linked its new node at level 0 (by an earlier
\* CompareAndSwap of the call, or by the one of this very step); a call
\* whose node is linked at level 0 never returns false.
C18_InsertLinearization ==
    [][\A t \in Threads :
          (th[t].op = "Insert" /\ Active(t) /\ th'[t].pc = "done")
              => (th'[t].res <=> (th[t].node # NIL \/ nalloc' # nalloc))]_vars

\* the keys held by unmarked nodes reachable from head at level 0
LiveKeys ==
    {key[n] : n \in {m \in NodeIds \ {head, tail} : ~marked[m] /\ Reachable(m, 0)}}

\* C20 (as claimed): the CompareAndSwap of Predecessor (line 550), done in a
\* Contains or Predecessor call, leaves the set of keys held by unmarked nodes
\* reachable from head at level 0 as it was before the step.
C20_QueriesKeepMembers ==
    [][\A t \in Threads :
          (/\ th[t].pc = "pr_cas" /\ th[t].op \in {"Contains", "Predecessor"}
           /\ th'[t].pc = "pr_load")
              => LiveKeys' = LiveKeys]_vars

\* the node listSearch(k, head, l) has to return as left when it runs alone
lsLeft(k, l) ==
    LET below == {n \in NodeIds \ {head, tail} : Reachable(n, l) /\ key[n] < k}
    IN  IF below = {} THEN head
        ELSE CHOOSE n \in below : \A m \in below : key[m] <= key[n]

\* C21 (as claimed): when listSearch(key, start, level) returns (left,
\* right), through line 130 or through the fallback of line 141, right is nil,
\* the tail or a node with key >= key whose mark the call last loaded as
\* false, and left is start or a node with key < key; when no call has
\* overlapped another and start is head, left is the node of the largest key
\* below key that is linked at the level and right is left's successor there.
C21_ListSearchContract ==
    [][\A t \in Threads :
          lsReturns(t) =>
              LET s == th[t] IN
              /\ \/ s.right \in {NIL, tail}
                 \/ /\ key[s.right] >= s.arg
                    /\ s.pc = "ls_vmarked" => ~marked[s.right]
              /\ s.left = s.start \/ key[s.left] < s.arg
              /\ (s.start = head /\ hist.phase = "build")
                     => /\ s.left = lsLeft(s.arg, s.level)
                        /\ s.right = next[s.left][s.level]]_vars

\* C22 (as claimed): a node whose Insert has returned true (it ran alone and
\* linked the node at every level below its height) and that is no longer
\* reachable from head at such a level does not become reachable at that
\* level again, whatever step is taken.
C22_NeverRestored ==
    [][\A n \in hist.insOK : \A l \in Levels :
          (l < origHeight[n] /\ ~Reachable(n, l)) => ~Reachable(n, l)']_vars

\* C23 (as claimed): when the stop flag of a node is set, the CompareAndSwap
\* of line 193 of the thread that inserts the node does not link it; and a
\* node whose Delete has returned true does not become reachable from head
\* at a level at which its inserting thread has not linked it yet.
C23_StopEndsPromotion ==
    [][\A t \in Threads :
          LET s == th[t] IN
          (s.pc = "ins_cas" /\ s.node # NIL) =>
              /\ stop[s.node] => next'[s.preds[s.level]][s.level] # s.node
              /\ hist.delCnt[s.node] > 0 =>
                     \A l \in Levels :
                         (s.level <= l /\ l < s.height) => ~Reachable(s.node, l)']_vars

\* C30 (as claimed): when Delete has found a node of height LogLogU and has
\* come to deleteFromTrie (line 484), and in particular when it has returned
\* true, the back pointer of the node is not nil.
C30_BackInstalled ==
    \A t \in Threads :
        LET s == th[t] IN
        (/\ s.op = "Delete" /\ s.node # NIL /\ origHeight[s.node] = LogLogU
         /\ \/ s.pc \in {"dt_load", "dt_curr", "dt_cas", "dt_chk0", "dt_chk1", "dt_del"}
            \/ s.pc = "done" /\ s.res)
            => back[s.node] # NIL

\* the slots n.next[l] that the next step of a thread in state s indexes
slotsUsed(s) ==
    CASE s.pc \in {"ls_load", "ls_cas", "ls_vnext"} -> {<<s.left, s.level>>}
      [] s.pc = "ls_skipnext" -> {<<s.right, s.level>>}
      [] s.pc \in {"pr_load", "pr_cas"} -> {<<s.curr, s.level>>}
      [] s.pc = "pr_next" -> {<<s.right, s.level>>}
      [] s.pc = "con_load" -> {<<IF s.pred = NIL THEN head ELSE s.pred, 0>>}
      [] s.pc = "del_first" -> {<<IF s.pred # NIL /\ s.pred # head THEN s.pred ELSE head, 0>>}
      [] s.pc = "del_scan" -> {<<s.curr, 0>>}
      [] s.pc = "sd_next" -> {<<s.node, s.level>>}
      [] s.pc = "sd_cas" -> {<<s.left, s.level>>}
      [] s.pc = "ins_cas" -> {<<s.preds[s.level], s.level>>}
      [] OTHER -> {}

\* the nodes of which the next step of a thread in state s reads a field
nodesUsed(s) ==
    CASE s.pc \in {"ls_skip", "ls_find", "ls_vmarked", "pr_marked"} -> {s.right}
      [] s.pc = "ls_vleft" -> {s.left}
      [] s.pc = "con_marked" -> {s.curr}
      [] s.pc \in {"sd_mark", "sd_stop", "fp_marked", "fp_prev", "fp_ready",
                   "fp_force", "it_marked"} -> {s.node}
      [] OTHER -> {}

\* a thread inside listSearch
inListSearch(s) ==
    s.pc \in {"ls_load", "ls_skip", "ls_skipnext", "ls_cas", "ls_find",
              "ls_vmarked", "ls_vnext", "ls_vleft"}

subtree(p, b) ==
    {n \in NodeIds \ {head, tail} :
        origHeight[n] = LogLogU /\ ~marked[n] /\ isPrefixOf(Append(p, b), key[n])}

\* C26 (as claimed): whenever no call is in progress in a sequential run of
\* Insert and Delete calls, for every trie entry whose prefix p is shorter
\* than the keys, slot 0 is nil or the node of the largest key among the
\* unmarked nodes of height L that start with p0, slot 1 is nil or the node
\* of the smallest key among those that start with p1, and a slot is nil
\* only when there is no such node.
C26_TrieSlots ==
    th[1].pc \in {"idle", "done"} =>
        \A p \in DOMAIN prefixes : \A b \in {0, 1} :
            Len(p) < KeyBits =>
                LET S == subtree(p, b)
                    v == pointers[prefixes[p]][b + 1]
                IN  /\ v # NIL =>
                           /\ v \in S
                           /\ \A m \in S : IF b = 0 THEN key[m] <= key[v]
                                                    ELSE key[m] >= key[v]
                    /\ v = NIL => S = {}

\* C27 (as claimed): the trie index never has an entry for the empty prefix;
\* and whenever no call is in progress, every unmarked node of height L that
\* is reachable from head at the top level has an entry for each prefix of
\* its key, of every length from 1 to the length of the keys.
C27_PrefixEntries ==
    /\ << >> \notin DOMAIN prefixes
    /\ (\A t \in Threads : ~Active(t)) =>
           \A n \in NodeIds \ {head, tail} :
               (origHeight[n] = LogLogU /\ ~marked[n] /\ Reachable(n, Top)) =>
                   \A j \in 1 .. KeyBits : extractPrefix(key[n], 0, j) \in DOMAIN prefixes

\* C28 (as claimed): when a Delete call has returned true for a node of
\* height L and the Insert call that created the node is no longer in
\* progress, no slot of an entry of the trie index references the node.
C28_NoSlotAfterBoth ==
    \A n \in NodeIds \ {head, tail} :
        (/\ origHeight[n] = LogLogU /\ hist.delCnt[n] > 0
         /\ \A t \in Threads : ~(Active(t) /\ th[t].op = "Insert" /\ th[t].node = n))
            => \A p \in DOMAIN prefixes :
                   pointers[prefixes[p]][1] # n /\ pointers[prefixes[p]][2] # n

\* the step of thread t is the return of fixPrev (lines 225, 241)
fixPrevReturns(t) ==
    th[t].pc \in {"fp_marked", "fp_ready", "fp_force"} /\ th'[t].pc = "it_marked"

\* every node of height L with ready = true has prev nil, or the head, or a
\* node of height L with a strictly smaller key
readyPrev ==
    \A n \in NodeIds \ {head, tail} :
        (origHeight[n] = LogLogU /\ ready[n]) =>
            \/ prev[n] \in {NIL, head}
            \/ /\ prev[n] # tail /\ origHeight[prev[n]] = LogLogU
               /\ key[prev[n]] < key[n]

\* C29 (as claimed): at the return of fixPrev the node is marked or ready;
\* ready never goes back to false; a ready node of height L has prev nil, the
\* head, or a node of height L with a strictly smaller key; at the step that
\* stores prev (line 223) the stored node is unmarked and its top-level
\* forward pointer is the node; and an Insert of a node of height L that
\* returns true before any two calls have overlapped leaves the node ready
\* with prev its immediate predecessor at the top level.
C29_FixPrev ==
    [][/\ \A t \in Threads :
             fixPrevReturns(t) => marked'[th[t].node] \/ ready'[th[t].node]
       /\ \A n \in NodeIds : ready[n] => ready'[n]
       /\ readyPrev'
       /\ \A t \in Threads :
             (th[t].pc = "fp_prev" /\ th'[t].pc = "fp_ready") =>
                 ~marked[th[t].left] /\ next[th[t].left][Top] = th[t].node
       /\ \A t \in Threads :
             (/\ th[t].op = "Insert" /\ Active(t) /\ th'[t].pc = "done" /\ th'[t].res
              /\ th[t].height = LogLogU /\ hist.phase = "build") =>
                 /\ ready[th[t].node]
                 /\ prev[th[t].node] = lsLeft(key[th[t].node], Top)]_vars

structure == <<next, marked, stop, ready, prev, back, prefixes, pointers>>

\* the call of s is past the access after which it can only return true: an
\* Insert has linked its node at level 0 (line 193), a Delete has marked the
\* node it found (line 246)
committed(s) ==
    /\ s.pc \notin {"idle", "done"}
    /\ s.node # NIL
    /\ \/ s.op = "Insert"
       \/ s.op = "Delete" /\ s.pc # "sd_mark"

\* C31: in sequential execution an Insert and a Delete that return false
\* have changed nothing: neither the forward pointers at any level, nor a
\* node's marked, stop, ready, prev or back, nor the trie index.  Step by
\* step: a step that changes one of these belongs to a call that has linked
\* or marked its node, or returns true with that step; such a call stays
\* so until it returns; and the step that returns false belongs to a call
\* that has not linked or marked a node, and changes nothing itself.
C31_FailedCallChangesNothing ==
    [][LET s == th[1]
           u == th'[1]
           returns == Active(1) /\ u.pc = "done"
       IN  /\ structure' # structure =>
                 committed(s) \/ committed(u) \/ (returns /\ u.res)
           /\ committed(s) => committed(u) \/ returns
           /\ (returns /\ s.op \in {"Insert", "Delete"} /\ ~u.res) =>
                 ~committed(s) /\ structure' = structure]_vars

\* an Insert of a key that is in the set has returned false, after a Delete
\* was made, with a node of height L in the list and in the trie index
C31_Witness ==
    /\ th[1].pc = "done" /\ th[1].op = "Insert" /\ ~th[1].res
    /\ th[1].arg \in hist.members
    /\ hist.delInv # {}
    /\ prefixes # << >>
    /\ next[head][Top] # tail

\* the thread is inside Predecessor (lines 538-553)
inPredecessor(s) == s.pc \in {"pr_load", "pr_marked", "pr_next", "pr_cas"}

\* C32: in every interleaving a non-nil result of Predecessor(k) is a node
\* other than the head and the tail whose key is strictly less than k and
\* that was seen unmarked at some moment during the call.  Step by step,
\* for the calls made by Contains and Delete as well: the call starts at
\* the head; a step of the call that moves curr moves it to a node other
\* than the sentinels, with a key below k, that is unmarked at that step;
\* and the call returns curr, or nil when curr is the head.
C32_PredecessorResult ==
    [][\A t \in Threads :
           LET s == th[t]
               u == th'[t]
               r == IF u.pc = "done" THEN u.curr ELSE u.pred
           IN  /\ (~inPredecessor(s) /\ inPredecessor(u)) => u.curr = head
               /\ (inPredecessor(s) /\ inPredecessor(u) /\ u.curr # s.curr) =>
                     /\ u.curr \notin {NIL, head, tail}
                     /\ key[u.curr] < s.arg
                     /\ ~marked[u.curr]
               /\ (inPredecessor(s) /\ ~inPredecessor(u)) =>
                     /\ r = IF s.curr = head THEN NIL ELSE s.curr
                     /\ r # NIL => r \notin {head, tail} /\ key[r] < s.arg]_vars

\* a Predecessor call has returned a node that was marked after the call
\* saw it unmarked, while another node was linked behind it
C32_Witness ==
    /\ Done(1, "Predecessor") /\ th[1].curr \notin {NIL, head, tail}
    /\ marked[th[1].curr]
    /\ key[th[1].curr] < th[1].arg
    /\ \E n \in NodeIds \ {head, tail} : origHeight[n] > 0 /\ key[n] > key[th[1].curr]

====
